---- MODULE Spec2Model ----
(***************************************************************************)
(* Model of 02-extract-wikilink-network/wikilink-network.ipynb: the        *)
(* two-level crawl of extract_network, the per-title outlink cache of      *)
(* get_outlinks, and the batched resolution of check_redirects.            *)
(*                                                                         *)
(* A title is a sequence of one-character strings, so that str.replace,    *)
(* the cache file name and the line format of the cache files are computed *)
(* as the code computes them.                                              *)
(***************************************************************************)
EXTENDS Integers, Sequences, FiniteSets, TLC

VARIABLES
    seed_file,          \* the lines of the seed file (input of the run)
    pc,                 \* position of extract_network
    seeds_list,         \* keys of the dict returned by load_seed
    todo,               \* titles the current for-loop has still to visit
    links_to_seedlinks, \* level 0: the list of the seeds' outlink lists
    frontier,           \* links_to_seedlinks after it is rebound at line 474
    first_step,         \* the degree table: title -> record
    net_file,           \* the lines written to the edge stream, as pairs
    net_open,           \* the edge stream is open
    cur,                \* loop variable `seed` (level 0) / `title` (level 1)
    is_new_page,        \* first component returned by get_outlinks
    outlinks_checked,   \* second component returned by get_outlinks
    pos,                \* index of the next target of the inner for-loop
    files,              \* link_folder: file name -> [exists, data]
    status,             \* the wiki: title -> kind of page ("?" = not yet asked)
    content,            \* the wiki: title -> links of the page body
    queries,            \* requests issued to the API during this run
    stdout,             \* the titles announced by print(), with their level
    opened,             \* titles whose cache file was opened for writing
    out,                \* title -> list get_outlinks returned for it
    loaded,             \* title -> lines get_outlinks read from its cache file
    empty_seen,         \* load_seed has met an empty entry of the seed file
    run,                \* number of the call of extract_network: 1 or 2
    cold,               \* what the first call has left in results_folder
    titles,             \* check_redirects: its argument
    title_lists,        \* check_redirects: batches still to query
    redirects,          \* check_redirects: dict from -> to
    links,              \* check_redirects: dict title -> page id
    duplicates,         \* check_redirects: counter
    rpc                 \* check_redirects: position

crawl_vars == <<seed_file, empty_seen, pc, seeds_list, todo, links_to_seedlinks, frontier,
                first_step, net_file, net_open, cur, is_new_page,
                outlinks_checked, pos, files, out, loaded, stdout, opened>>
wiki_vars == <<status, content>>
resolve_vars == <<titles, title_lists, redirects, links, duplicates, rpc>>
runs_vars == <<run, cold>>
vars == <<crawl_vars, wiki_vars, queries, resolve_vars, runs_vars>>

(***************************************************************************)
(* Bounds of the model.                                                    *)
(***************************************************************************)
MaxSeedLines == 2   \* lines of a seed file
MaxOut == 2         \* links in a page body
MaxTitles == 101    \* length of the argument of check_redirects
MaxRawLen == 3      \* characters of a raw entry of the seed file
MaxRawLines == 1    \* lines of a seed file of raw entries
MaxTitleLen == 2    \* characters of a title written to the cache

A == <<"A">>
B == <<"B">>
C == <<"C">>
D == <<"D">>
Titles == {A, B, C, D}

(***************************************************************************)
(* Sequences and Python built-ins.                                         *)
(***************************************************************************)
Range(s) == {s[i] : i \in 1..Len(s)}

Min(a, b) == IF a < b THEN a ELSE b

\* all sequences over S of length 0..n
SeqsUpTo(S, n) == UNION {[1..k -> S] : k \in 0..n}

\* str.replace that exchanges the two characters
Replace_Swap(s, old, new) ==
    [i \in 1..Len(s) |-> IF s[i] = old THEN new ELSE IF s[i] = new THEN old ELSE s[i]]

\* str.replace(old, new) for one-character old and new
Replace(s, old, new) == [i \in 1..Len(s) |-> IF s[i] = old THEN new ELSE s[i]]

RECURSIVE Strip(_, _)
\* str.strip(ch) for a one-character ch
Strip(s, ch) ==
    IF s = <<>> THEN s
    ELSE IF Head(s) = ch THEN Strip(Tail(s), ch)
    ELSE IF s[Len(s)] = ch THEN Strip(SubSeq(s, 1, Len(s) - 1), ch)
    ELSE s

RECURSIVE Flatten(_)
\* itertools.chain.from_iterable / ''.join
Flatten(ss) == IF ss = <<>> THEN <<>> ELSE Head(ss) \o Flatten(Tail(ss))

RECURSIVE SplitLines(_)
\* str.splitlines() for the line terminator "\n"
SplitLines(data) ==
    IF data = <<>> THEN <<>>
    ELSE LET nl == {i \in 1..Len(data) : data[i] = "\n"}
         IN  IF nl = {} THEN <<data>>
             ELSE LET k == CHOOSE i \in nl : \A j \in nl : i <= j
                  IN  <<SubSeq(data, 1, k - 1)>>
                          \o SplitLines(SubSeq(data, k + 1, Len(data)))

\* a Python dict as the sequence of its <<key, value>> items in insertion order
DictKeys(d) == [i \in 1..Len(d) |-> d[i][1]]
DictHas(d, k) == \E i \in 1..Len(d) : d[i][1] = k
DictSet(d, k, v) ==
    IF DictHas(d, k)
    THEN [i \in 1..Len(d) |-> IF d[i][1] = k THEN <<k, v>> ELSE d[i]]
    ELSE Append(d, <<k, v>>)

(***************************************************************************)
(* The resolution service (wikitools api.APIRequest(site, params).query()) *)
(* as the code consumes it.  status[t] = <<kind, to>>: the kind of page a  *)
(* title names, and the target when it is a redirect.  A page that does    *)
(* not exist is listed under a negative id, the first of a response under  *)
(* -1, the next under -2; only a title the wiki can name has an 'ns'.      *)
(***************************************************************************)
Unknown == <<"?", <<>>>>
Missing == <<"missing", <<>>>>
Article == <<"article", <<>>>>
Talk == <<"talk", <<>>>>
Invalid == <<"invalid", <<>>>>
RedirectTo(t) == <<"redirect", t>>
NoContent == <<<<"?">>>>

TitleOrder == <<A, B, C, D>>
PageId(t) == CHOOSE i \in 1..Len(TitleOrder) : TitleOrder[i] = t

\* '|'.join(title_list).strip('|')
RECURSIVE JoinPipe(_)
JoinPipe(title_list) ==
    IF title_list = <<>> THEN <<>>
    ELSE IF Len(title_list) = 1 THEN Head(title_list)
    ELSE LET h == Len(title_list) \div 2
         IN  JoinPipe(SubSeq(title_list, 1, h)) \o <<"|">>
                 \o JoinPipe(SubSeq(title_list, h + 1, Len(title_list)))

StripPipe(s) == Strip(s, "|")

\* the pieces of s between its '|'
SplitAll(s) ==
    LET bars == SelectSeq([i \in 1..Len(s) |-> i], LAMBDA i : s[i] = "|")
    IN  [n \in 1..(Len(bars) + 1) |->
            SubSeq(s, IF n = 1 THEN 1 ELSE bars[n - 1] + 1,
                      IF n = Len(bars) + 1 THEN Len(s) ELSE bars[n] - 1)]

\* the service's reading of the 'titles' parameter: nothing follows a last '|'
SplitPipe(s) ==
    LET pieces == SplitAll(s)
    IN  IF pieces[Len(pieces)] = <<>> THEN SubSeq(pieces, 1, Len(pieces) - 1) ELSE pieces

\* the page the service lists for title t: <<id, [ns, has_ns, title]>>;
\* m = number of negative ids the response holds already
ApiPage(t, st, m) ==
    LET kind == st[t][1]
    IN  CASE kind = "missing" -> <<-(m + 1), [ns |-> 0, has_ns |-> TRUE, title |-> t]>>
          [] kind = "invalid" -> <<-(m + 1), [ns |-> 0, has_ns |-> FALSE, title |-> t]>>
          [] kind = "talk" -> <<PageId(t), [ns |-> 1, has_ns |-> TRUE, title |-> t]>>
          [] OTHER -> <<PageId(t), [ns |-> 0, has_ns |-> TRUE, title |-> t]>>

\* the title under which the service lists the page of title t
ApiTarget(t, st, follow) == IF follow /\ st[t][1] = "redirect" THEN st[t][2] ELSE t

\* the 'redirects' of the response: one item for every title of the request
\* that is a redirect, in the order of the request
ApiRedirects(ts, st, follow) ==
    LET asked == SelectSeq(ts, LAMBDA t : follow /\ st[t][1] = "redirect")
    IN  [i \in 1..Len(asked) |-> [from |-> asked[i], to |-> st[asked[i]][2]]]

\* the 'pages' of the response: one item for every page the titles of the
\* request name, in the order of the request
ApiPages(ts, st, follow) ==
    LET us == [i \in 1..Len(ts) |-> ApiTarget(ts[i], st, follow)]
        firsts == SelectSeq([i \in 1..Len(us) |-> <<i, us[i]>>],
                            LAMBDA x : \A j \in 1..(x[1] - 1) : us[j] # x[2])
        negative(k) == st[firsts[k][2]][1] \in {"missing", "invalid"}
    IN  [k \in 1..Len(firsts) |->
            ApiPage(firsts[k][2], st,
                    Cardinality({j \in 1..(k - 1) : negative(j)}))]

\* result['query'] of a query for the pipe-joined titles; follow = the
\* request carries 'redirects'
ApiQuery(joined, st, follow) ==
    LET ts == SplitPipe(joined)
    IN  [redirects |-> ApiRedirects(ts, st, follow), pages |-> ApiPages(ts, st, follow)]

(***************************************************************************)
(* split_param_list, check_redirects, parse_text, get_outlinks_from_api    *)
(***************************************************************************)
chunk_len == 50

\* split_param_list that leaves out the last, shorter chunk
SplitParamList_NoTail(alist) ==
    IF Len(alist) < 1 THEN <<>>
    ELSE [k \in 1..(Len(alist) \div chunk_len) |->
            SubSeq(alist, (k - 1) * chunk_len + 1, k * chunk_len)]

\* split_param_list: '' for an empty list, else the chunks
SplitParamList(alist) ==
    IF Len(alist) < 1 THEN <<>>
    ELSE [k \in 1..((Len(alist) + chunk_len - 1) \div chunk_len) |->
            SubSeq(alist, (k - 1) * chunk_len + 1, Min(k * chunk_len, Len(alist)))]

\* lines 309-311: redirects[redir['from']] = redir['to'] for every item; a
\* key keeps the place of its first assignment and the value of its last
MergeRedirects(d, rs) ==
    LET items == d \o [i \in 1..Len(rs) |-> <<rs[i].from, rs[i].to>>]
        firsts == SelectSeq([i \in 1..Len(items) |-> <<i, items[i][1]>>],
                            LAMBDA x : \A j \in 1..(x[1] - 1) : items[j][1] # x[2])
        last(k) == CHOOSE i \in 1..Len(items) :
                      /\ items[i][1] = k
                      /\ \A j \in (i + 1)..Len(items) : items[j][1] # k
    IN  [n \in 1..Len(firsts) |-> <<firsts[n][2], items[last(firsts[n][2])][2]>>]

\* KeepPage without the namespace test of line 315
KeepPage_AnyNs(item) == item[1] # -1 /\ item[2].has_ns

\* line 314-315: the page is kept
KeepPage(item) == item[1] # -1 /\ item[2].has_ns /\ item[2].ns = 0

RECURSIVE MergePages(_, _)
\* lines 313-319; acc = [links, duplicates]
MergePages(acc, pages) ==
    IF pages = <<>> THEN acc
    ELSE LET item == Head(pages)
             link == Replace(item[2].title, " ", "_")
         IN  IF KeepPage(item)
             THEN MergePages([links |-> DictSet(acc.links, link, item[1]),
                              duplicates |-> IF DictHas(acc.links, link)
                                             THEN acc.duplicates + 1
                                             ELSE acc.duplicates],
                             Tail(pages))
             ELSE MergePages(acc, Tail(pages))

\* one iteration of the loop of check_redirects (lines 295-319)
CheckBatch(acc, title_list, st) ==
    LET joined == StripPipe(JoinPipe(title_list))
        result == ApiQuery(joined, st, TRUE)
        merged == MergePages([links |-> acc.links, duplicates |-> acc.duplicates],
                             result.pages)
    IN  [redirects |-> MergeRedirects(acc.redirects, result.redirects),
         links |-> merged.links,
         duplicates |-> merged.duplicates,
         queries |-> Append(acc.queries, <<"redirects", joined>>)]

RECURSIVE CheckBatches(_, _, _)
CheckBatches(acc, lists, st) ==
    IF lists = <<>> THEN acc
    ELSE CheckBatches(CheckBatch(acc, Head(lists), st), Tail(lists), st)

\* check_redirects(titles): [redirects, links, duplicates, queries]
CheckRedirects(ts, st) ==
    CheckBatches([redirects |-> <<>>, links |-> <<>>, duplicates |-> 0, queries |-> <<>>],
                 SplitParamList(ts), st)

RECURSIVE ParsePages(_, _)
\* lines 365-370
ParsePages(d, pages) ==
    IF pages = <<>> THEN d
    ELSE ParsePages(IF KeepPage(Head(pages)) THEN DictSet(d, Head(pages)[2].title, 1) ELSE d,
                    Tail(pages))

RECURSIVE ParseBatches(_, _, _)
\* lines 349-370; acc = [links, queries]
ParseBatches(acc, lists, st) ==
    IF lists = <<>> THEN acc
    ELSE LET joined == StripPipe(JoinPipe(Head(lists)))
             result == ApiQuery(joined, st, FALSE)
         IN  ParseBatches([links |-> ParsePages(acc.links, result.pages),
                           queries |-> Append(acc.queries, <<"parse_text", joined>>)],
                          Tail(lists), st)

\* parse_text, given the matches of linkP in the page body
ParseText(rough_links, st) ==
    ParseBatches([links |-> <<>>, queries |-> <<>>], SplitParamList(rough_links), st)

\* get_outlinks_from_api(title): [p_id, outlinks, queries]
GetOutlinksFromApi(title, st, ct) ==
    IF title = <<>> \/ title = <<" ">>
    THEN [p_id |-> -1, outlinks |-> <<>>, queries |-> <<>>]
    ELSE LET result == ApiQuery(title, st, TRUE)
             first == result.pages[1]
             asked == <<<<"revisions", title>>>>
         IN  IF first[1] < 1
             THEN [p_id |-> -1, outlinks |-> <<>>, queries |-> asked]
             ELSE LET parsed == ParseText(ct[first[2].title], st)
                      keys == DictKeys(parsed.links)
                  IN  [p_id |-> first[1],
                       outlinks |-> [i \in 1..Len(keys) |-> Replace(keys[i], " ", "_")],
                       queries |-> asked \o parsed.queries]

(***************************************************************************)
(* The outlink cache: one file per title under link_folder.                *)
(***************************************************************************)
NoFile == [exists |-> FALSE, data |-> <<>>]

\* '{}_articles.txt'.format(title.replace('/','.'))
OutlinksFilename(title) == Replace(title, "/", ".") \o <<"_articles.txt">>

FileNames == {OutlinksFilename(t) : t \in Titles}

\* ReadLines that stops after the first line of the file
ReadLines_FirstLine(fs, name) ==
    IF fs[name].exists /\ fs[name].data # <<>>
    THEN <<Head(SplitLines(fs[name].data))>>
    ELSE <<>>

\* outlinks_saved.open('r') ... f.read().splitlines(); IOError -> []
ReadLines(fs, name) == IF fs[name].exists THEN SplitLines(fs[name].data) ELSE <<>>

\* get_outlinks that never looks at the saved file
GetOutlinks_NoCache(title, fs, st, ct) ==
    LET got == GetOutlinksFromApi(title, st, ct)
        checked == CheckRedirects(got.outlinks, st)
    IN  [is_new_page |-> TRUE,
         outlinks_checked |-> DictKeys(checked.links),
         queries |-> got.queries \o checked.queries]

\* get_outlinks that gives up when the saved file cannot be opened
GetOutlinks_NoFallback(title, fs, st, ct) ==
    IF ~fs[OutlinksFilename(title)].exists
    THEN [is_new_page |-> FALSE, outlinks_checked |-> <<>>, queries |-> <<>>]
    ELSE GetOutlinks_NoCache(title, fs, st, ct)

\* get_outlinks(title): [is_new_page, outlinks_checked, queries]
GetOutlinks(title, fs, st, ct) ==
    LET saved == ReadLines(fs, OutlinksFilename(title))
    IN  IF saved # <<>>
        THEN [is_new_page |-> FALSE, outlinks_checked |-> saved, queries |-> <<>>]
        ELSE LET got == GetOutlinksFromApi(title, st, ct)
                 checked == CheckRedirects(got.outlinks, st)
             IN  [is_new_page |-> TRUE,
                  outlinks_checked |-> DictKeys(checked.links),
                  queries |-> got.queries \o checked.queries]

(***************************************************************************)
(* load_seed                                                               *)
(***************************************************************************)
RECURSIVE LoadSeed_KeepEmpty(_)
\* load_seed without the test `if el` of line 153
LoadSeed_KeepEmpty(lines) ==
    IF lines = <<>> THEN {}
    ELSE LET el == Strip(Head(lines), "\n")
         IN  (IF el = <<>> \/ el[1] # "#" THEN {Replace(el, " ", "_")} ELSE {})
                 \cup LoadSeed_KeepEmpty(Tail(lines))

RECURSIVE LoadSeed(_)
\* the keys of the dict load_seed builds from the lines of the seed file
LoadSeed(lines) ==
    IF lines = <<>> THEN {}
    ELSE LET el == Strip(Head(lines), "\n")
         IN  (IF el # <<>> /\ el[1] # "#" THEN {Replace(el, " ", "_")} ELSE {})
                 \cup LoadSeed(Tail(lines))

\* the lines a seed file of the model is made of
SeedLines == {A \o <<"\n">>, B \o <<"\n">>, <<"\n">>, <<"#", "A", "\n">>}
SeedFiles == SeqsUpTo(SeedLines, MaxSeedLines)

(***************************************************************************)
(* The degree table first_step.                                            *)
(***************************************************************************)
Put(f, k, v) == [x \in DOMAIN f \cup {k} |-> IF x = k THEN v ELSE f[x]]

Empty == [x \in {} |-> 0]

\* lines 425-445: the record of the seed of a level-0 edge
Level0Source(fs, seed, target, seeds, n) ==
    IF seed \in DOMAIN fs
    THEN Put(fs, seed,
             [fs[seed] EXCEPT !.out_degree = @ + 1,
                              !.links_to_seed = IF target \in seeds THEN @ + 1 ELSE @])
    ELSE Put(fs, seed,
             [seed |-> TRUE, links_from_seed |-> 0,
              links_to_seed |-> IF target \in seeds THEN 1 ELSE 0,
              in_degree |-> 0, out_degree |-> 1, out_WP |-> n])

\* Level0Target that makes no record for a title that has none
Level0Target_NoCreate(fs, target, seeds) ==
    IF target \in DOMAIN fs
    THEN Put(fs, target,
             [fs[target] EXCEPT !.links_from_seed = @ + 1,
                                !.in_degree = @ + 1,
                                !.seed = IF target \in seeds THEN TRUE ELSE @])
    ELSE fs

\* lines 446-467: the record of the target of a level-0 edge
Level0Target(fs, target, seeds) ==
    IF target \in DOMAIN fs
    THEN Put(fs, target,
             [fs[target] EXCEPT !.links_from_seed = @ + 1,
                                !.in_degree = @ + 1,
                                !.seed = IF target \in seeds THEN TRUE ELSE @])
    ELSE Put(fs, target,
             [seed |-> target \in seeds, links_from_seed |-> 1, links_to_seed |-> 0,
              in_degree |-> 1, out_degree |-> 0, out_WP |-> 0])

\* Level0Emits without the test of line 420
Level0Emits_All(seed, target) == TRUE

\* line 420: the level-0 loop emits an edge for this target
Level0Emits(seed, target) == seed # target

\* Level1Emits without the membership tests of lines 499 and 505
Level1Emits_AnyTarget(title, target, seeds, front) == target # title

\* Level1Emits without the tests `target != title`
Level1Emits_Self(title, target, seeds, front) == target \in seeds \/ target \in front

\* lines 499 and 505: the level-1 loop emits an edge for this target
Level1Emits(title, target, seeds, front) ==
    \/ target \in seeds /\ target # title
    \/ target \in front /\ target # title

\* Level1Source without the increment of line 501
Level1Source_NoSeedCount(fs, title, target, seeds) ==
    Put(fs, title, [fs[title] EXCEPT !.out_degree = @ + 1])

\* lines 501-502 and 507: the record of the source of a level-1 edge
Level1Source(fs, title, target, seeds) ==
    Put(fs, title,
        [fs[title] EXCEPT !.links_to_seed = IF target \in seeds THEN @ + 1 ELSE @,
                          !.out_degree = @ + 1])

\* Level1Target without the increment of lines 503 and 508
Level1Target_NoCount(fs, target) == fs

\* lines 503 and 508: the record of the target of a level-1 edge
Level1Target(fs, target) ==
    Put(fs, target, [fs[target] EXCEPT !.in_degree = @ + 1])

\* Frontier of the last seed's outlinks only
Frontier_LastOnly(lists, seeds) ==
    IF lists = <<>> THEN {} ELSE Range(lists[Len(lists)]) \ seeds

\* Frontier without the subtraction of the seeds
Frontier_KeepSeeds(lists, seeds) == Range(Flatten(lists))

\* lines 473-474
Frontier(lists, seeds) == Range(Flatten(lists)) \ seeds

(***************************************************************************)
(* The wiki answers a title the first time it is asked about it; its       *)
(* answers stay the same for the whole run.                                *)
(***************************************************************************)
CrawlKinds == {Missing, Article}
LinkTargets == {A, B, C}
IsSet(s) == \A i, j \in 1..Len(s) : s[i] = s[j] => i = j
\* the link lists of a page body
Bodies == {b \in SeqsUpTo(LinkTargets, MaxOut) : IsSet(b)}

\* the wiki of the scenario of the specification: A -> B, C; B -> A, D; C -> B
ScenarioStatus == [t \in Titles |-> Article]
ScenarioContent == (A :> <<B, C>>) @@ (B :> <<A, D>>) @@ (C :> <<B>>) @@ (D :> <<>>)

\* the file a run leaves for a list of outlinks: one title per line
RECURSIVE FileData(_)
FileData(lines) ==
    IF lines = <<>> THEN <<>> ELSE Head(lines) \o <<"\n">> \o FileData(Tail(lines))

\* the titles earlier runs have expanded
CachedTitles == {A, C}

\* link_folder when the run opens the file `name` for the first time: an
\* earlier run has left no file, or the list it has saved for the title
Unseen == [exists |-> FALSE, data |-> <<"?">>]
Reveal(fs, name) ==
    IF fs[name] # Unseen THEN {fs}
    ELSE {[fs EXCEPT ![name] = NoFile]}
         \cup {[fs EXCEPT ![name] = [exists |-> TRUE, data |-> FileData(b)]] :
                  b \in IF \E t \in CachedTitles : name = OutlinksFilename(t)
                        THEN Bodies ELSE {}}

ExtendStatus(st, need) ==
    LET ask == {t \in need : st[t] = Unknown}
    IN  {[t \in Titles |-> IF t \in ask THEN f[t] ELSE st[t]] : f \in [ask -> CrawlKinds]}

ExtendContent(ct, t) ==
    IF ct[t] # NoContent THEN {ct}
    ELSE {[ct EXCEPT ![t] = b] : b \in Bodies}

\* get_outlinks(title) goes to the service
NeedsApi(title, fs) == ReadLines(fs, OutlinksFilename(title)) = <<>>

\* the wikis [st, ct] that answer everything get_outlinks(title) asks
Worlds(title, fs, st, ct) ==
    IF ~NeedsApi(title, fs) \/ title = <<>> \/ title = <<" ">>
    THEN {[st |-> st, ct |-> ct]}
    ELSE UNION {
           IF st1[title] \in {Missing, Invalid}
           THEN {[st |-> st1, ct |-> ct]}
           ELSE UNION {{[st |-> st2, ct |-> ct1] : st2 \in ExtendStatus(st1, Range(ct1[title]))}
                       : ct1 \in ExtendContent(ct, title)}
           : st1 \in ExtendStatus(st, {title})}

(***************************************************************************)
(* extract_network: one run over a link_folder earlier runs have used.     *)
(***************************************************************************)
NoTitle == <<>>

\* results_folder before the first call of extract_network
NoRun == [edges |-> <<>>, table |-> [x \in {} |-> 0]]
FirstRun == run = 1 /\ cold = NoRun

ResolveIdle ==
    /\ titles = <<>>
    /\ title_lists = <<>>
    /\ redirects = <<>>
    /\ links = <<>>
    /\ duplicates = 0
    /\ rpc = "idle"

\* the state of a process before extract_network is called
Fresh ==
    /\ pc = "Init"
    /\ seeds_list = {}
    /\ todo = {}
    /\ links_to_seedlinks = <<>>
    /\ frontier = {}
    /\ first_step = Empty
    /\ net_file = <<>>
    /\ net_open = TRUE
    /\ cur = NoTitle
    /\ is_new_page = FALSE
    /\ outlinks_checked = <<>>
    /\ pos = 1
    /\ queries = <<>>
    /\ stdout = <<>>
    /\ opened = <<>>
    /\ out = Empty
    /\ loaded = Empty

Init ==
    /\ FirstRun
    /\ seed_file \in SeedFiles
    /\ empty_seen = FALSE
    /\ Fresh
    /\ files = [n \in FileNames |-> Unseen]
    /\ \/ /\ status = [t \in Titles |-> Unknown]
          /\ content = [t \in Titles |-> NoContent]
       \/ /\ status = ScenarioStatus
          /\ content = ScenarioContent
    /\ ResolveIdle

\* line 399, which reads the seed file to its end, and the head of the loop
\* of line 403
Start ==
    /\ pc = "Init"
    /\ seeds_list' = LoadSeed(seed_file)
    /\ todo' = LoadSeed(seed_file)
    /\ seed_file' = <<>>
    /\ empty_seen' = (\E i \in 1..Len(seed_file) : Strip(seed_file[i], "\n") = <<>>)
    /\ pc' = "Level0Expand"
    /\ UNCHANGED <<runs_vars, links_to_seedlinks, frontier, first_step, net_file, net_open,
                   cur, is_new_page, outlinks_checked, pos, files, out, loaded, stdout,
                   opened, wiki_vars, queries, resolve_vars>>

\* lines 403-417: one seed, up to its loop over the targets
Level0Get ==
    /\ pc = "Level0Expand"
    /\ \E seed \in todo :
         \E fs \in Reveal(files, OutlinksFilename(seed)) :
         \E w \in Worlds(seed, fs, status, content) :
           LET got == GetOutlinks(seed, fs, w.st, w.ct)
               name == OutlinksFilename(seed)
           IN  /\ status' = w.st
               /\ content' = w.ct
               /\ todo' = todo \ {seed}
               /\ cur' = seed
               /\ stdout' = Append(stdout, <<0, seed>>)
               /\ queries' = queries \o got.queries
               /\ is_new_page' = got.is_new_page
               /\ outlinks_checked' = got.outlinks_checked
               /\ out' = Put(out, seed, got.outlinks_checked)
               /\ loaded' = Put(loaded, seed, ReadLines(fs, name))
               /\ links_to_seedlinks' = Append(links_to_seedlinks, got.outlinks_checked)
               /\ IF got.is_new_page
                  THEN /\ files' = [fs EXCEPT ![name] = [exists |-> TRUE, data |-> @.data]]
                       /\ opened' = Append(opened, seed)
                       /\ first_step' =
                            IF seed \in DOMAIN first_step
                            THEN Put(first_step, seed,
                                     [first_step[seed] EXCEPT
                                        !.out_WP = Len(got.outlinks_checked)])
                            ELSE first_step
                  ELSE /\ files' = fs
                       /\ UNCHANGED <<opened, first_step>>
    /\ pos' = 1
    /\ pc' = "Level0Targets"
    /\ UNCHANGED <<runs_vars, seed_file, empty_seen, seeds_list, frontier, net_file, net_open, resolve_vars>>

\* lines 419-467: one target of the seed
Level0Step ==
    /\ pc = "Level0Targets"
    /\ pos <= Len(outlinks_checked)
    /\ LET target == outlinks_checked[pos]
           name == OutlinksFilename(cur)
       IN  IF Level0Emits(cur, target)
           THEN /\ net_file' = Append(net_file, <<cur, target>>)
                /\ files' = IF is_new_page
                            THEN [files EXCEPT ![name].data = @ \o target \o <<"\n">>]
                            ELSE files
                /\ first_step' =
                     Level0Target(Level0Source(first_step, cur, target, seeds_list,
                                               Len(outlinks_checked)),
                                  target, seeds_list)
           ELSE UNCHANGED <<net_file, files, first_step>>
    /\ pos' = pos + 1
    /\ UNCHANGED <<runs_vars, seed_file, empty_seen, pc, seeds_list, todo, links_to_seedlinks, frontier, net_open,
                   cur, is_new_page, outlinks_checked, out, loaded, stdout, opened,
                   wiki_vars, queries, resolve_vars>>

\* lines 469-470, and back to the head of the loop
Level0Close ==
    /\ pc = "Level0Targets"
    /\ pos > Len(outlinks_checked)
    /\ pc' = "Level0Expand"
    /\ UNCHANGED <<runs_vars, seed_file, empty_seen, seeds_list, todo, links_to_seedlinks, frontier, first_step,
                   net_file, net_open, cur, is_new_page, outlinks_checked, pos, files, out, loaded,
                   stdout, opened, wiki_vars, queries, resolve_vars>>

\* Level0Done that leaves the loop of line 403 with seeds still to visit
Level0Done_Early ==
    /\ pc = "Level0Expand"
    /\ pc' = "Level1Collect"
    /\ UNCHANGED <<runs_vars, seed_file, empty_seen, seeds_list, todo, links_to_seedlinks, frontier, first_step,
                   net_file, net_open, cur, is_new_page, outlinks_checked, pos, files, out, loaded,
                   stdout, opened, wiki_vars, queries, resolve_vars>>

\* the loop of line 403 has visited every seed
Level0Done ==
    /\ pc = "Level0Expand"
    /\ todo = {}
    /\ pc' = "Level1Collect"
    /\ UNCHANGED <<runs_vars, seed_file, empty_seen, seeds_list, todo, links_to_seedlinks, frontier, first_step,
                   net_file, net_open, cur, is_new_page, outlinks_checked, pos, files, out, loaded,
                   stdout, opened, wiki_vars, queries, resolve_vars>>

\* lines 473-474
Level1Collect ==
    /\ pc = "Level1Collect"
    /\ frontier' = Frontier(links_to_seedlinks, seeds_list)
    /\ todo' = Frontier(links_to_seedlinks, seeds_list)
    /\ pc' = "Level1Expand"
    /\ UNCHANGED <<runs_vars, seed_file, empty_seen, seeds_list, links_to_seedlinks, first_step, net_file, net_open,
                   cur, is_new_page, outlinks_checked, pos, files, out, loaded, stdout,
                   opened, wiki_vars, queries, resolve_vars>>

\* lines 480-495: one title of the frontier, up to its loop over the targets;
\* a title without a record raises KeyError at line 495
Level1Get ==
    /\ pc = "Level1Expand"
    /\ \E title \in todo :
         \E fs \in Reveal(files, OutlinksFilename(title)) :
         \E w \in Worlds(title, fs, status, content) :
           LET got == GetOutlinks(title, fs, w.st, w.ct)
               name == OutlinksFilename(title)
           IN  /\ status' = w.st
               /\ content' = w.ct
               /\ todo' = todo \ {title}
               /\ cur' = title
               /\ stdout' = Append(stdout, <<1, title>>)
               /\ queries' = queries \o got.queries
               /\ is_new_page' = got.is_new_page
               /\ outlinks_checked' = got.outlinks_checked
               /\ out' = Put(out, title, got.outlinks_checked)
               /\ loaded' = Put(loaded, title, ReadLines(fs, name))
               /\ IF got.is_new_page
                  THEN /\ files' = [fs EXCEPT ![name] = [exists |-> TRUE, data |-> <<>>]]
                       /\ opened' = Append(opened, title)
                       /\ IF title \in DOMAIN first_step
                          THEN /\ first_step' =
                                    Put(first_step, title,
                                        [first_step[title] EXCEPT
                                           !.out_WP = Len(got.outlinks_checked)])
                               /\ pc' = "Level1Targets"
                          ELSE /\ first_step' = first_step
                               /\ pc' = "KeyError"
                  ELSE /\ pc' = "Level1Targets"
                       /\ files' = fs
                       /\ UNCHANGED <<opened, first_step>>
    /\ pos' = 1
    /\ UNCHANGED <<runs_vars, seed_file, empty_seen, seeds_list, links_to_seedlinks, frontier, net_file, net_open, resolve_vars>>

\* lines 496-508: one target of the title; the record lookups of lines
\* 501-503 and 507-508 raise KeyError for a title without a record
Level1Step ==
    /\ pc = "Level1Targets"
    /\ pos <= Len(outlinks_checked)
    /\ LET target == outlinks_checked[pos]
           name == OutlinksFilename(cur)
       IN  /\ files' = IF is_new_page
                       THEN [files EXCEPT ![name].data = @ \o target \o <<"\n">>]
                       ELSE files
           /\ IF Level1Emits(cur, target, seeds_list, frontier)
              THEN /\ net_file' = Append(net_file, <<cur, target>>)
                   /\ IF cur \notin DOMAIN first_step
                      THEN /\ first_step' = first_step
                           /\ pc' = "KeyError"
                      ELSE IF target \notin DOMAIN first_step
                      THEN /\ first_step' = Level1Source(first_step, cur, target, seeds_list)
                           /\ pc' = "KeyError"
                      ELSE /\ first_step' =
                                Level1Target(Level1Source(first_step, cur, target, seeds_list),
                                             target)
                           /\ pc' = pc
              ELSE UNCHANGED <<net_file, first_step, pc>>
    /\ pos' = pos + 1
    /\ UNCHANGED <<runs_vars, seed_file, empty_seen, seeds_list, todo, links_to_seedlinks, frontier, net_open, cur,
                   is_new_page, outlinks_checked, out, loaded, stdout, opened, wiki_vars,
                   queries, resolve_vars>>

\* lines 513-514, and back to the head of the loop
Level1Close ==
    /\ pc = "Level1Targets"
    /\ pos > Len(outlinks_checked)
    /\ pc' = "Level1Expand"
    /\ UNCHANGED <<runs_vars, seed_file, empty_seen, seeds_list, todo, links_to_seedlinks, frontier, first_step,
                   net_file, net_open, cur, is_new_page, outlinks_checked, pos, files, out, loaded,
                   stdout, opened, wiki_vars, queries, resolve_vars>>

\* lines 516-523: the loop of line 480 has visited the whole frontier
Finalize ==
    /\ pc = "Level1Expand"
    /\ todo = {}
    /\ net_open' = FALSE
    /\ pc' = "Finalize"
    /\ UNCHANGED <<runs_vars, seed_file, empty_seen, seeds_list, todo, links_to_seedlinks, frontier, first_step,
                   net_file, cur, is_new_page, outlinks_checked, pos, files, out, loaded,
                   stdout, opened, wiki_vars, queries, resolve_vars>>

\* request.query() raises (lines 209, 306, 359): the exception leaves
\* extract_network from the call of get_outlinks at line 406 or 486
TransportFailure ==
    /\ pc \in {"Level0Expand", "Level1Expand"}
    /\ \E title \in todo :
         \E fs \in Reveal(files, OutlinksFilename(title)) :
         /\ NeedsApi(title, fs)
         /\ files' = fs
         /\ cur' = title
         /\ todo' = todo \ {title}
         /\ stdout' = Append(stdout, <<IF pc = "Level0Expand" THEN 0 ELSE 1, title>>)
         /\ queries' = Append(queries, <<"failed", title>>)
    /\ pc' = "TransportFailure"
    /\ UNCHANGED <<runs_vars, seed_file, empty_seen, seeds_list, links_to_seedlinks, frontier, first_step, net_file,
                   net_open, is_new_page, outlinks_checked, pos, out, loaded, opened,
                   wiki_vars, resolve_vars>>

Ended == pc \in {"Finalize", "KeyError", "TransportFailure"}

Next ==
    \/ Start
    \/ Level0Get
    \/ Level0Step
    \/ Level0Close
    \/ Level0Done
    \/ Level1Collect
    \/ Level1Get
    \/ Level1Step
    \/ Level1Close
    \/ Finalize
    \/ TransportFailure

Spec == Init /\ [][Next]_vars

(***************************************************************************)
(* Properties of the crawl.                                                *)
(***************************************************************************)
Edges == Range(net_file)
EdgesInto(t) == Cardinality({i \in 1..Len(net_file) : net_file[i][2] = t})
EdgesFrom(t) == Cardinality({i \in 1..Len(net_file) : net_file[i][1] = t})
NameOf(t) == OutlinksFilename(t)

\* C1: at Finalize, every title of the degree table has in_degree = number
\* of lines of the edge stream with that target, and out_degree = number of
\* lines with that source.
C1_DegreeConsistency ==
    pc = "Finalize" =>
        \A t \in DOMAIN first_step :
            /\ first_step[t].in_degree = EdgesInto(t)
            /\ first_step[t].out_degree = EdgesFrom(t)

\* a completed run with edges of both levels, a title with two incoming
\* and a title with two outgoing edges
C1_Witness ==
    /\ pc = "Finalize"
    /\ \E i \in 1..Len(net_file) : net_file[i][1] \in frontier
    /\ \E t \in DOMAIN first_step : first_step[t].in_degree >= 2
    /\ \E t \in DOMAIN first_step : first_step[t].out_degree >= 2

\* what a step of Level1Expand may do to the edge stream and the degree table
C2_Level1Step ==
    pc \in {"Level1Expand", "Level1Targets"} =>
        /\ net_file' # net_file =>
             /\ Len(net_file') = Len(net_file) + 1
             /\ net_file'[Len(net_file')][2] \in seeds_list \cup frontier
        /\ frontier' = frontier
        /\ \A t \in Titles \ (seeds_list \cup frontier) :
             /\ t \in DOMAIN first_step' <=> t \in DOMAIN first_step
             /\ t \in DOMAIN first_step => first_step'[t] = first_step[t]

\* C2: during Level1Expand every edge written has its target in SeedSet or
\* in the frontier computed at Level1Collect, and the record of no title
\* outside that universe is created or changed.
C2_FrontierClosure == [][C2_Level1Step]_vars

\* a frontier title has written an edge and has dropped a target that lies
\* outside SeedSet and frontier
C2_Witness ==
    /\ pc = "Level1Targets"
    /\ \E i \in 1..(pos - 1) : outlinks_checked[i] \notin seeds_list \cup frontier
    /\ \E i \in 1..(pos - 1) : <<cur, outlinks_checked[i]>> \in Edges

\* C3: no line of the edge stream has the same source and target.
C3_NoSelfEdges == \A i \in 1..Len(net_file) : net_file[i][1] # net_file[i][2]

\* a completed run in which a seed and a frontier title each have
\* themselves among their outlinks, the one resolved and the other cached
C3_Witness ==
    /\ pc = "Finalize"
    /\ net_file # <<>>
    /\ \E s \in seeds_list, c \in frontier :
         /\ s \in Range(out[s]) /\ c \in Range(out[c])
         /\ Len(out[s]) > 1 /\ Len(out[c]) > 1
         /\ (loaded[s] = <<>>) # (loaded[c] = <<>>)

\* the edges the claim expects of the outlink lists `out`
ExpectedFrontier == UNION {Range(out[s]) : s \in seeds_list} \ seeds_list
ExpectedEdges ==
    {e \in seeds_list \X Titles : e[2] \in Range(out[e[1]]) /\ e[2] # e[1]}
    \cup
    {e \in ExpectedFrontier \X (seeds_list \cup ExpectedFrontier) :
        e[2] \in Range(out[e[1]]) /\ e[2] # e[1]}

IsScenario ==
    /\ seeds_list = {A}
    /\ DOMAIN out = {A, B, C}
    /\ out[A] = <<B, C>>
    /\ out[B] = <<A, D>>
    /\ out[C] = <<B>>

\* C4: the set of edges of a completed run is
\* {(s,t) : s in S, t in out(s), t # s} united with
\* {(c,t) : c in F, t in out(c), t # c, t in S or F}, F the seeds' outlinks
\* minus S; the scenario A -> B, C; B -> A, D; C -> B with seed A gives the
\* edges A-B, A-C, B-A, C-B and the degrees A(out 2, in 1), B(in 2, out 1),
\* C(in 1, out 1).
C4_ExactEdgeSet ==
    pc = "Finalize" =>
        /\ DOMAIN out = seeds_list \cup ExpectedFrontier
        /\ Edges = ExpectedEdges
        /\ IsScenario =>
             /\ Edges = {<<A, B>>, <<A, C>>, <<B, A>>, <<C, B>>}
             /\ Len(net_file) = 4
             /\ DOMAIN first_step = {A, B, C}
             /\ first_step[A].out_degree = 2 /\ first_step[A].in_degree = 1
             /\ first_step[B].in_degree = 2 /\ first_step[B].out_degree = 1
             /\ first_step[C].in_degree = 1 /\ first_step[C].out_degree = 1

\* the scenario has run to its end
C4_Witness == pc = "Finalize" /\ IsScenario

\* C5: for every title resolved in the run, the lines of its cache file are
\* the list get_outlinks returned for it.
C5_CacheRoundTrip ==
    pc = "Finalize" =>
        \A t \in Range(opened) : ReadLines(files, NameOf(t)) = out[t]

\* what a step may do when get_outlinks returns, and to a file it has read
C6_Step ==
    /\ (pc \in {"Level0Expand", "Level1Expand"} /\ cur' \in DOMAIN out' \ DOMAIN out) =>
           IF loaded'[cur'] # <<>>
           THEN /\ ~is_new_page'
                /\ outlinks_checked' = loaded'[cur']
                /\ queries' = queries
                /\ opened' = opened
           ELSE /\ is_new_page'
                /\ Len(queries') > Len(queries)
                /\ queries'[Len(queries) + 1] = <<"revisions", cur'>>
    /\ \A t \in DOMAIN loaded' :
           loaded'[t] # <<>> => ReadLines(files', NameOf(t)) = loaded'[t]

\* C6: get_outlinks returns a non-empty saved list as it is, with
\* is_new_page = False and without a request, and the file keeps its lines
\* to the end of the run; with no or an empty file it asks the service and
\* returns is_new_page = True.
C6_CacheAuthority == [][C6_Step]_vars

\* a completed run that has taken the two-line list of one title from its
\* file and has resolved another title
C6_Witness ==
    /\ pc = "Finalize"
    /\ \E t \in DOMAIN loaded : Len(loaded[t]) = 2 /\ out[t] = loaded[t]
    /\ \E t \in DOMAIN loaded : loaded[t] = <<>> /\ out[t] # <<>>

Announced(level) == {i \in 1..Len(stdout) : stdout[i][1] = level}
Fetches(t) == {i \in 1..Len(queries) : queries[i] = <<"revisions", t>>}

\* C7: no title is expanded twice, in one level or across the levels; the
\* titles expanded at level 0 are seeds and, once the level is over, all of
\* them, those of level 1 are frontier titles and, at Finalize, all of them;
\* a title is fetched at most once and its file opened for writing at most
\* once, and only when its file had no line.
C7_SingleExpansion ==
    /\ \A i, j \in 1..Len(stdout) : stdout[i][2] = stdout[j][2] => i = j
    /\ \A i \in Announced(0) : stdout[i][2] \in seeds_list
    /\ \A i \in Announced(1) : stdout[i][2] \in frontier
    /\ pc \in {"Level1Collect", "Level1Expand", "Level1Targets", "Finalize"} =>
           {stdout[i][2] : i \in Announced(0)} = seeds_list
    /\ pc = "Finalize" => {stdout[i][2] : i \in Announced(1)} = frontier
    /\ \A t \in Titles : Cardinality(Fetches(t)) <= 1
    /\ \A i, j \in 1..Len(opened) : opened[i] = opened[j] => i = j
    /\ \A i \in 1..Len(opened) : loaded[opened[i]] = <<>>

\* a completed run over two seeds that link to each other and a frontier
\* of two titles
C7_Witness ==
    /\ pc = "Finalize"
    /\ Cardinality(seeds_list) = 2
    /\ Cardinality(frontier) = 2
    /\ \A s \in seeds_list : \E t \in seeds_list : t # s /\ t \in Range(out[s])
    /\ Len(opened) >= 2

\* C8: a run in which no request fails ends at Finalize.
C8_ReachesFinalize == Ended => pc \in {"Finalize", "TransportFailure"}

\* C12: an empty entry of the seed file is no seed: the run does not
\* announce or expand the empty title, opens no cache file for it, writes no
\* edge from or to it and keeps no degree record for it.
C12_EmptySeedSkipped ==
    empty_seen =>
        /\ <<>> \notin seeds_list
        /\ \A i \in 1..Len(stdout) : stdout[i][2] # <<>>
        /\ <<>> \notin DOMAIN out
        /\ <<>> \notin Range(opened)
        /\ \A i \in 1..Len(net_file) : net_file[i][1] # <<>> /\ net_file[i][2] # <<>>
        /\ <<>> \notin DOMAIN first_step

\* a completed run over a seed file with an empty entry and a seed that has
\* written an edge
C12_Witness ==
    /\ pc = "Finalize"
    /\ empty_seen
    /\ seeds_list # {}
    /\ net_file # <<>>

\* the titles that are the source or the target of a line of the edge stream
Endpoints == {net_file[i][1] : i \in 1..Len(net_file)} \cup {net_file[i][2] : i \in 1..Len(net_file)}

\* C15: between two pairs of either level, a title has a record if and only
\* if it is an endpoint of an edge of the edge stream, and every record has
\* in_degree + out_degree >= 1.
C15_LazyRecords ==
    /\ DOMAIN first_step = Endpoints
    /\ \A t \in DOMAIN first_step :
         first_step[t].in_degree + first_step[t].out_degree >= 1

EdgesFromSeedInto(t) ==
    Cardinality({i \in 1..Len(net_file) : net_file[i][2] = t /\ net_file[i][1] \in seeds_list})
EdgesToSeedFrom(t) ==
    Cardinality({i \in 1..Len(net_file) : net_file[i][1] = t /\ net_file[i][2] \in seeds_list})

\* C16: at Finalize every record has seed = (the title is a seed),
\* links_from_seed = number of edges from a seed to the title, and
\* links_to_seed = number of edges from the title to a seed, of either level.
C16_SeedRoleCounters ==
    pc = "Finalize" =>
        \A t \in DOMAIN first_step :
            /\ first_step[t].seed = (t \in seeds_list)
            /\ first_step[t].links_from_seed = EdgesFromSeedInto(t)
            /\ first_step[t].links_to_seed = EdgesToSeedFrom(t)

\* a completed run with a seed-to-seed edge, an edge from a frontier title
\* to a seed, and a title two seeds link to
C16_Witness ==
    /\ pc = "Finalize"
    /\ \E i \in 1..Len(net_file) : net_file[i][1] \in seeds_list /\ net_file[i][2] \in seeds_list
    /\ \E i \in 1..Len(net_file) : net_file[i][1] \in frontier /\ net_file[i][2] \in seeds_list
    /\ \E t \in DOMAIN first_step : first_step[t].links_from_seed = 2

\* C17: at Finalize the record of a seed whose outlinks the run has resolved
\* (no saved list) has out_WP = number of outlinks resolved for the seed.
C17_Level0ExpandedCount ==
    pc = "Finalize" =>
        \A s \in seeds_list \cap DOMAIN first_step :
            loaded[s] = <<>> => first_step[s].out_WP = Len(out[s])

\* C18: at Finalize the record of every frontier title has out_WP = length
\* of the list get_outlinks returned for the title, from its file or from
\* the service.
C18_Level1ExpandedCount ==
    pc = "Finalize" =>
        \A c \in frontier :
            c \in DOMAIN first_step /\ first_step[c].out_WP = Len(out[c])

\* C19: from Level1Collect on, the frontier is the union of the lists
\* get_outlinks returned for the seeds, minus the seeds; it holds no seed,
\* the loop of level 1 meets each of its titles once, and it stays the same
\* until the run ends.
C19_FrontierCollected ==
    /\ pc \in {"Init", "Level0Expand", "Level0Targets", "Level1Collect"} => frontier = {}
    /\ pc \in {"Level1Expand", "Level1Targets", "KeyError", "Finalize"} =>
         /\ frontier = ExpectedFrontier
         /\ frontier \cap seeds_list = {}
         /\ LET met == {stdout[i][2] : i \in Announced(1)}
            IN  /\ met \cap todo = {}
                /\ met \cup todo = frontier
                /\ Cardinality(Announced(1)) = Cardinality(met)

\* a completed run over two seeds whose lists hold each other and the same
\* third title
C19_Witness ==
    /\ pc = "Finalize"
    /\ seeds_list = {A, B}
    /\ Range(out[A]) = {B, C}
    /\ Range(out[B]) = {A, C}
    /\ frontier = {C}

\* the phase of a position of extract_network; a run that has raised is
\* past every phase
Phase(p) ==
    CASE p = "Init" -> 0
      [] p \in {"Level0Expand", "Level0Targets"} -> 1
      [] p = "Level1Collect" -> 2
      [] p \in {"Level1Expand", "Level1Targets"} -> 3
      [] p = "Finalize" -> 4
      [] OTHER -> 5

\* the order of what the run has printed and written so far
C20_Order ==
    /\ \A i \in Announced(0), j \in Announced(1) : i < j
    /\ Announced(1) # {} => seeds_list = {stdout[i][2] : i \in Announced(0)}
    /\ Announced(0) # {} => Phase(pc) >= 1
    /\ Announced(1) # {} => Phase(pc) >= 3
    /\ \A i, j \in 1..Len(net_file) :
         (i < j /\ net_file[j][1] \in seeds_list) => net_file[i][1] \in seeds_list
    /\ \A i \in 1..Len(net_file) :
         net_file[i][1] \notin seeds_list => (Phase(pc) >= 3 /\ net_file[i][1] \in frontier)
    /\ net_open = (pc # "Finalize")

\* what one step may do to the phase, the requests and the edge stream
C20_Step ==
    /\ Phase(pc') >= Phase(pc)
    /\ Phase(pc') <= Phase(pc) + 1 \/ Phase(pc') = 5
    /\ Phase(pc) >= 4 => pc' = pc
    /\ net_file' # net_file => net_open /\ Phase(pc) \in {1, 3}
    /\ queries' # queries =>
         /\ Len(queries') > Len(queries)
         /\ SubSeq(queries', 1, Len(queries)) = queries
         /\ queries'[Len(queries) + 1] \in {<<"revisions", cur'>>, <<"failed", cur'>>}
         /\ \A k \in (Len(queries) + 2)..Len(queries') :
              queries'[k][1] \in {"parse_text", "redirects"}

\* C20: a run goes through Init, Level0Expand, Level1Collect, Level1Expand
\* and Finalize in this order and never back; every seed is expanded before
\* any frontier title, every level-0 edge stands before every level-1 edge,
\* the requests of one step belong to one call of get_outlinks, and nothing
\* is written to the edge stream once it is closed.
C20_PhaseOrdering == []C20_Order /\ [][C20_Step]_vars

\* a completed run over two seeds with edges of both levels
C20_Witness ==
    /\ pc = "Finalize"
    /\ ~net_open
    /\ Cardinality(seeds_list) = 2
    /\ \E i \in 1..Len(net_file) : net_file[i][1] \in seeds_list
    /\ \E i \in 1..Len(net_file) : net_file[i][1] \in frontier
    /\ Len(queries) >= 6

\* C22: when a run has ended, by its return or by an exception, a cache file
\* the run has written for a frontier title and that is not empty holds
\* every title of the list get_outlinks returned for the title, so that
\* the next run never takes a part of the list for the whole.
C22_NoPartialRecord ==
    Ended =>
        \A t \in Range(opened) \cap frontier :
            LET lines == ReadLines(files, NameOf(t))
            IN  lines # <<>> => lines = out[t]

\* no list get_outlinks has returned, from a file or from the service,
\* holds a title twice
NoRepeatedOutlink == \A t \in DOMAIN out : IsSet(out[t])

\* C23: when no outlink list holds a title twice, no pair (source, target)
\* stands on two lines of the edge stream, of one level or of both.
C23_NoDuplicateEdges ==
    NoRepeatedOutlink =>
        \A i, j \in 1..Len(net_file) : net_file[i] = net_file[j] => i = j

\* a completed run with a saved and a resolved list of two titles each,
\* with edges of both levels and an edge in both directions
C23_Witness ==
    /\ pc = "Finalize"
    /\ NoRepeatedOutlink
    /\ Len(net_file) >= 4
    /\ \E t \in DOMAIN out : Len(out[t]) = 2 /\ loaded[t] = out[t]
    /\ \E t \in DOMAIN out : Len(out[t]) = 2 /\ loaded[t] = <<>>
    /\ \E i \in 1..Len(net_file) : net_file[i][1] \in frontier
    /\ \E i, j \in 1..Len(net_file) :
         net_file[i][1] = net_file[j][2] /\ net_file[i][2] = net_file[j][1]

\* the run has reached Level1Expand
InLevel1 == pc \in {"Level1Expand", "Level1Targets", "Finalize"} \/ Announced(1) # {}

\* the records of the frontier, from the begin of Level1Expand on
C25_Records ==
    InLevel1 =>
        /\ DOMAIN first_step \ seeds_list = frontier
        /\ DOMAIN first_step \subseteq seeds_list \cup frontier
        /\ \A c \in frontier :
             /\ ~first_step[c].seed
             /\ first_step[c].links_from_seed >= 1
             /\ first_step[c].in_degree >= 1
        /\ pc = "KeyError" => cur \in DOMAIN first_step

\* a step of Level1Expand adds no key to the degree table and takes none away
C25_Step == InLevel1 => DOMAIN first_step' = DOMAIN first_step

\* C25: when Level1Expand begins, the titles that hold a record and are no
\* seeds are the titles of the frontier, each with seed = false,
\* links_from_seed >= 1 and in_degree >= 1, so no lookup of the record of the
\* title under expansion fails; Level1Expand adds no key, and every key of
\* the final degree table is a seed or a frontier title.
C25_FrontierRecords == []C25_Records /\ [][C25_Step]_vars

\* a completed run over two seeds that both link to a frontier title, which
\* is resolved in this run and has an edge of its own
C25_Witness ==
    /\ pc = "Finalize"
    /\ Cardinality(seeds_list) = 2
    /\ \E c \in frontier :
         /\ c \in Range(opened)
         /\ first_step[c].links_from_seed = 2
         /\ first_step[c].out_degree >= 1
         /\ first_step[c].out_WP >= 1

(***************************************************************************)
(* check_redirects on its own: one call, batch by batch.                   *)
(***************************************************************************)
CrawlIdle ==
    /\ FirstRun
    /\ seed_file = <<>>
    /\ empty_seen = FALSE
    /\ pc = "idle"
    /\ seeds_list = {}
    /\ todo = {}
    /\ links_to_seedlinks = <<>>
    /\ frontier = {}
    /\ first_step = Empty
    /\ net_file = <<>>
    /\ net_open = TRUE
    /\ cur = NoTitle
    /\ is_new_page = FALSE
    /\ outlinks_checked = <<>>
    /\ pos = 1
    /\ files = [n \in FileNames |-> Unseen]
    /\ content = [t \in Titles |-> NoContent]
    /\ stdout = <<>>
    /\ opened = <<>>
    /\ out = Empty
    /\ loaded = Empty

\* the wikis of a call: D is a page, the others may be missing, may lie in
\* another namespace, may have no valid name or may redirect to D
ResolveWikis ==
    {st \in [Titles -> {Missing, Article, Talk, Invalid, RedirectTo(D)}] :
        /\ st[B] \in {Missing, Talk, RedirectTo(D)}
        /\ st[C] \in {Missing, Article}
        /\ st[D] \in {Article, Talk}}

\* the title lists of a call: every short list, and lists of up to MaxTitles
\* titles in the repeating order A, B, C, D
Cyclic(n) == [i \in 1..n |-> TitleOrder[((i - 1) % Len(TitleOrder)) + 1]]
ResolveInputs == SeqsUpTo(Titles, 2) \cup {Cyclic(n) : n \in 3..MaxTitles}

ResolveInit ==
    /\ CrawlIdle
    /\ status \in ResolveWikis
    /\ titles \in ResolveInputs
    /\ title_lists = <<>>
    /\ redirects = <<>>
    /\ links = <<>>
    /\ duplicates = 0
    /\ queries = <<>>
    /\ rpc = "start"

\* lines 290-294
ResolveSplit ==
    /\ rpc = "start"
    /\ title_lists' = SplitParamList(titles)
    /\ rpc' = "loop"
    /\ UNCHANGED <<runs_vars, crawl_vars, wiki_vars, queries, titles, redirects, links, duplicates>>

\* lines 295-319: one batch
ResolveBatch ==
    /\ rpc = "loop"
    /\ title_lists # <<>>
    /\ LET acc == CheckBatch([redirects |-> redirects, links |-> links,
                              duplicates |-> duplicates, queries |-> queries],
                             Head(title_lists), status)
       IN  /\ redirects' = acc.redirects
           /\ links' = acc.links
           /\ duplicates' = acc.duplicates
           /\ queries' = acc.queries
    /\ title_lists' = Tail(title_lists)
    /\ UNCHANGED <<runs_vars, crawl_vars, wiki_vars, titles, rpc>>

\* lines 321-327
ResolveReturn ==
    /\ rpc = "loop"
    /\ title_lists = <<>>
    /\ rpc' = "done"
    /\ UNCHANGED <<runs_vars, crawl_vars, wiki_vars, queries, titles, title_lists, redirects, links,
                   duplicates>>

ResolveNext ==
    \/ ResolveSplit
    \/ ResolveBatch
    \/ ResolveReturn

SpecResolve == ResolveInit /\ [][ResolveNext]_vars

(***************************************************************************)
(* Properties of check_redirects.                                          *)
(***************************************************************************)
\* the namespace under which the wiki lists the page of a title
HasNs(t) == status[t][1] # "invalid"
NsOf(t) == IF status[t][1] = "talk" THEN 1 ELSE 0

\* C9: an item of the resolved map stands for a page whose id is not -1 and
\* whose namespace is 0; no title of another namespace has an item.
C9_NamespaceFiltering ==
    /\ \A i \in 1..Len(links) :
         /\ links[i][2] # -1
         /\ \E t \in Titles :
              /\ Replace(t, " ", "_") = links[i][1]
              /\ HasNs(t) /\ NsOf(t) = 0
    /\ \A t \in Titles : NsOf(t) # 0 => ~DictHas(links, Replace(t, " ", "_"))

\* a call has returned items for a batch that held a page of namespace 0,
\* a page of another namespace and a title redirected to one
C9_Witness ==
    /\ rpc = "done"
    /\ links # <<>>
    /\ \E t \in Range(titles) : status[t] = Talk
    /\ \E t \in Range(titles) : status[t] = Article
    /\ \E t \in Range(titles) : status[t] = RedirectTo(D) /\ status[D] = Talk

\* the batches queried so far, read back from the requests
Queried == [i \in 1..Len(queries) |-> SplitPipe(queries[i][2])]

\* C10: the batches are 1 to 50 titles long, all but the last 50, and their
\* concatenation is the argument; check_redirects sends one query for each,
\* ceil(n / 50) for n titles and none for the empty list.
C10_Batching ==
    /\ rpc # "start" =>
         LET all == Queried \o title_lists
         IN  /\ Flatten(all) = titles
             /\ \A k \in 1..Len(all) :
                  /\ Len(all[k]) >= 1 /\ Len(all[k]) <= 50
                  /\ k < Len(all) => Len(all[k]) = 50
    /\ rpc = "done" =>
         /\ Len(queries) = (Len(titles) + 49) \div 50
         /\ \A i \in 1..Len(queries) : queries[i][1] = "redirects"
         /\ titles = <<>> => queries = <<>>

\* a call for more than 100 titles has returned after three queries
C10_Witness == rpc = "done" /\ Len(titles) > 100 /\ Len(queries) = 3

(***************************************************************************)
(* get_outlinks on its own: one call, for a title the crawl may hand it.   *)
(***************************************************************************)
Blank == {<<>>, <<" ">>, <<" ", " ">>, <<"\t">>}
CallTitles == Blank \cup {A, B}

\* the title has no character other than white space
IsBlank(t) == \A i \in 1..Len(t) : t[i] \in {" ", "\t"}

\* what link_folder holds for the title of the call
CallFiles(title) ==
    {[n \in {OutlinksFilename(t) : t \in CallTitles \cup Titles} |->
         IF n = OutlinksFilename(title) THEN f ELSE NoFile] :
       f \in {NoFile} \cup {[exists |-> TRUE, data |-> FileData(b)] : b \in Bodies}}

\* the wiki of a call: a blank title names no page
CallStatus ==
    {[t \in CallTitles \cup Titles |-> IF t \in Titles THEN st[t] ELSE Invalid] :
       st \in [Titles -> CrawlKinds]}
CallContent(title) ==
    {[t \in CallTitles \cup Titles |-> IF t = title THEN b ELSE <<>>] : b \in Bodies}

CallInit ==
    /\ FirstRun
    /\ seed_file = <<>>
    /\ empty_seen = FALSE
    /\ pc = "call"
    /\ seeds_list = {}
    /\ todo = {}
    /\ links_to_seedlinks = <<>>
    /\ frontier = {}
    /\ first_step = Empty
    /\ net_file = <<>>
    /\ net_open = TRUE
    /\ cur \in CallTitles
    /\ is_new_page = FALSE
    /\ outlinks_checked = <<>>
    /\ pos = 1
    /\ files \in CallFiles(cur)
    /\ status \in CallStatus
    /\ content \in CallContent(cur)
    /\ queries = <<>>
    /\ stdout = <<>>
    /\ opened = <<>>
    /\ out = Empty
    /\ loaded = Empty
    /\ ResolveIdle

\* lines 235-258: get_outlinks(cur) from its first line to its return
Call ==
    /\ pc = "call"
    /\ LET got == GetOutlinks(cur, files, status, content)
       IN  /\ is_new_page' = got.is_new_page
           /\ outlinks_checked' = got.outlinks_checked
           /\ queries' = queries \o got.queries
           /\ loaded' = Put(loaded, cur, ReadLines(files, OutlinksFilename(cur)))
    /\ pc' = "returned"
    /\ UNCHANGED <<runs_vars, seed_file, empty_seen, seeds_list, todo, links_to_seedlinks, frontier, first_step,
                   net_file, net_open, cur, pos, files, out, stdout, opened, wiki_vars,
                   resolve_vars>>

CallNext == Call

SpecCall == CallInit /\ [][CallNext]_vars

(***************************************************************************)
(* Properties of get_outlinks.                                             *)
(***************************************************************************)
\* C11: get_outlinks of a title that is empty or has only white space
\* returns an empty list and sends no request, neither for the page nor for
\* a batch of links.
C11_EmptyTitleShortCircuit ==
    (pc = "returned" /\ IsBlank(cur) /\ ~files[NameOf(cur)].exists) =>
        /\ outlinks_checked = <<>>
        /\ queries = <<>>

\* C13: when the cache file of the title cannot be opened, get_outlinks
\* returns with is_new_page = True and the list the service resolves for the
\* title, having asked the service for the page first.
C13_ReadFailureIsMiss ==
    (pc = "returned" /\ ~files[NameOf(cur)].exists) =>
        /\ is_new_page
        /\ loaded[cur] = <<>>
        /\ outlinks_checked =
             DictKeys(CheckRedirects(GetOutlinksFromApi(cur, status, content).outlinks,
                                     status).links)
        /\ cur \notin {<<>>, <<" ">>} =>
             /\ queries # <<>>
             /\ queries[1] = <<"revisions", cur>>

\* a call without a cache file has returned the links the service resolved
C13_Witness ==
    /\ pc = "returned"
    /\ ~files[NameOf(cur)].exists
    /\ is_new_page
    /\ Len(outlinks_checked) = 2
    /\ Len(queries) = 3

(***************************************************************************)
(* load_seed on its own: one call, line by line, over raw entries.         *)
(***************************************************************************)
RawChars == {" ", "_", "a", "#"}
RawLines == {l \o <<"\n">> : l \in SeqsUpTo(RawChars, MaxRawLen)}
RawFiles == SeqsUpTo(RawLines, MaxRawLines)

LoadInit ==
    /\ FirstRun
    /\ seed_file \in RawFiles
    /\ empty_seen = FALSE
    /\ pc = "load"
    /\ seeds_list = {}
    /\ todo = {}
    /\ links_to_seedlinks = <<>>
    /\ frontier = {}
    /\ first_step = Empty
    /\ net_file = <<>>
    /\ net_open = TRUE
    /\ cur = NoTitle
    /\ is_new_page = FALSE
    /\ outlinks_checked = <<>>
    /\ pos = 1
    /\ files = [n \in FileNames |-> Unseen]
    /\ status = [t \in Titles |-> Unknown]
    /\ content = [t \in Titles |-> NoContent]
    /\ queries = <<>>
    /\ stdout = <<>>
    /\ opened = <<>>
    /\ out = Empty
    /\ loaded = Empty
    /\ ResolveIdle

\* lines 151-155: one line of the seed file
LoadLine ==
    /\ pc = "load"
    /\ pos <= Len(seed_file)
    /\ seeds_list' = seeds_list \cup LoadSeed(<<seed_file[pos]>>)
    /\ empty_seen' = (empty_seen \/ Strip(seed_file[pos], "\n") = <<>>)
    /\ pos' = pos + 1
    /\ UNCHANGED <<runs_vars, seed_file, pc, todo, links_to_seedlinks, frontier, first_step, net_file,
                   net_open, cur, is_new_page, outlinks_checked, files, out, loaded,
                   stdout, opened, wiki_vars, queries, resolve_vars>>

\* line 156
LoadReturn ==
    /\ pc = "load"
    /\ pos > Len(seed_file)
    /\ pc' = "loaded"
    /\ UNCHANGED <<runs_vars, seed_file, empty_seen, seeds_list, todo, links_to_seedlinks, frontier,
                   first_step, net_file, net_open, cur, is_new_page, outlinks_checked,
                   pos, files, out, loaded, stdout, opened, wiki_vars, queries,
                   resolve_vars>>

LoadNext ==
    \/ LoadLine
    \/ LoadReturn

SpecLoad == LoadInit /\ [][LoadNext]_vars

(***************************************************************************)
(* Properties of load_seed.                                                *)
(***************************************************************************)
\* the entries load_seed has kept so far, as they stand in the file
KeptEntries ==
    {el \in {Strip(seed_file[i], "\n") : i \in 1..(pos - 1)} : el # <<>> /\ el[1] # "#"}

\* C14: the title load_seed keeps for a raw entry has '_' where the entry
\* has a space and the entry's character everywhere else, and normalising
\* it once more gives the same title.
C14_IdempotentNormalization ==
    /\ \A el \in KeptEntries :
         \E t \in seeds_list :
            /\ Len(t) = Len(el)
            /\ \A k \in 1..Len(el) : t[k] = IF el[k] = " " THEN "_" ELSE el[k]
    /\ \A t \in seeds_list : Replace(t, " ", "_") = t

\* load_seed has returned the title of an entry with a space, a '_' and
\* another character
C14_Witness ==
    /\ pc = "loaded"
    /\ \E el \in KeptEntries : {" ", "_", "a"} \subseteq Range(el)
    /\ <<"a", "_", "_">> \in seeds_list

(***************************************************************************)
(* The cache record of one title on its own: extract_network writes the    *)
(* list of a title to its file, and get_outlinks is called for a title.    *)
(***************************************************************************)
StoreChars == {"a", "/", "."}
StoreTitles == SeqsUpTo(StoreChars, MaxTitleLen) \ {<<>>}
StoreNames == {OutlinksFilename(t) : t \in StoreTitles}

StoreInit ==
    /\ FirstRun
    /\ seed_file = <<>>
    /\ empty_seen = FALSE
    /\ pc = "store"
    /\ seeds_list = {}
    /\ todo = {}
    /\ links_to_seedlinks = <<>>
    /\ frontier = {}
    /\ first_step = Empty
    /\ net_file = <<>>
    /\ net_open = TRUE
    /\ cur \in StoreTitles
    /\ is_new_page = TRUE
    /\ outlinks_checked \in Bodies
    /\ pos = 1
    /\ files = [n \in StoreNames |-> NoFile]
    /\ status = [t \in StoreTitles \cup Titles |-> Missing]
    /\ content = [t \in StoreTitles \cup Titles |-> <<>>]
    /\ queries = <<>>
    /\ stdout = <<>>
    /\ opened = <<>>
    /\ out = Empty
    /\ loaded = Empty
    /\ ResolveIdle

\* lines 488-490, 496-498 and 513-514: the file of title cur is opened for
\* writing, takes one line per target and is closed
StoreRecord ==
    /\ pc = "store"
    /\ files' = [files EXCEPT ![OutlinksFilename(cur)] =
                    [exists |-> TRUE, data |-> FileData(outlinks_checked)]]
    /\ opened' = Append(opened, cur)
    /\ out' = Put(out, cur, outlinks_checked)
    /\ pc' = "stored"
    /\ UNCHANGED <<runs_vars, seed_file, empty_seen, seeds_list, todo, links_to_seedlinks, frontier,
                   first_step, net_file, net_open, cur, is_new_page, outlinks_checked,
                   pos, loaded, stdout, wiki_vars, queries, resolve_vars>>

\* lines 235-258: get_outlinks(title), for any title
Reload ==
    /\ pc = "stored"
    /\ \E title \in StoreTitles :
         LET got == GetOutlinks(title, files, status, content)
         IN  /\ cur' = title
             /\ is_new_page' = got.is_new_page
             /\ outlinks_checked' = got.outlinks_checked
             /\ queries' = queries \o got.queries
             /\ loaded' = Put(loaded, title, ReadLines(files, OutlinksFilename(title)))
    /\ pc' = "reloaded"
    /\ UNCHANGED <<runs_vars, seed_file, empty_seen, seeds_list, todo, links_to_seedlinks, frontier,
                   first_step, net_file, net_open, pos, files, out, stdout, opened,
                   wiki_vars, resolve_vars>>

StoreNext ==
    \/ StoreRecord
    \/ Reload

SpecStore == StoreInit /\ [][StoreNext]_vars

(***************************************************************************)
(* Properties of the cache record.                                         *)
(***************************************************************************)
\* C21: two distinct titles have distinct cache files, so get_outlinks of a
\* title never returns the list that was stored for another title, also
\* when the titles hold '/' or '.'.
C21_OneRecordPerTitle ==
    (pc = "reloaded" /\ cur # opened[1]) =>
        /\ NameOf(cur) # NameOf(opened[1])
        /\ loaded[cur] = <<>>
        /\ is_new_page

(***************************************************************************)
(* Two calls of extract_network for one seed file: the first over an empty *)
(* link_folder, the second over the link_folder the first has left.        *)
(***************************************************************************)
WarmInit ==
    /\ FirstRun
    /\ seed_file \in SeedFiles
    /\ empty_seen = FALSE
    /\ Fresh
    /\ files = [n \in FileNames |-> NoFile]
    /\ \/ /\ status = [t \in Titles |-> Unknown]
          /\ content = [t \in Titles |-> NoContent]
       \/ /\ status = ScenarioStatus
          /\ content = ScenarioContent
    /\ ResolveIdle

\* the notebook is run once more after the first run has returned: line 129
\* opens the edge file anew, line 680 calls extract_network, and load_seed
\* (line 399) reads the same seed file, so that it returns the same seeds
Rerun ==
    /\ pc = "Finalize"
    /\ run = 1
    /\ run' = 2
    /\ cold' = [edges |-> net_file, table |-> first_step]
    /\ pc' = "Level0Expand"
    /\ todo' = seeds_list
    /\ links_to_seedlinks' = <<>>
    /\ frontier' = {}
    /\ first_step' = Empty
    /\ net_file' = <<>>
    /\ net_open' = TRUE
    /\ cur' = NoTitle
    /\ is_new_page' = FALSE
    /\ outlinks_checked' = <<>>
    /\ pos' = 1
    /\ queries' = <<>>
    /\ stdout' = <<>>
    /\ opened' = <<>>
    /\ out' = Empty
    /\ loaded' = Empty
    /\ UNCHANGED <<seed_file, empty_seen, seeds_list, files, wiki_vars, resolve_vars>>

WarmNext ==
    \/ Next
    \/ Rerun

SpecWarm == WarmInit /\ [][WarmNext]_vars

(***************************************************************************)
(* Properties of the second run.                                           *)
(***************************************************************************)
\* the fields of a record but out_WP
Counters(r) == <<r.seed, r.links_from_seed, r.links_to_seed, r.in_degree, r.out_degree>>

\* C24: a second run over the cache a completed first run has left, the
\* first run having begun with an empty cache and the service giving the
\* same answers, ends at Finalize with the same set of edges and, for every
\* title, the same seed, links_from_seed, links_to_seed, in_degree and
\* out_degree as the first run.
C24_ColdWarmEquivalence ==
    (run = 2 /\ Ended /\ pc # "TransportFailure") =>
        /\ pc = "Finalize"
        /\ Range(net_file) = Range(cold.edges)
        /\ DOMAIN first_step = DOMAIN cold.table
        /\ \A t \in DOMAIN first_step :
             Counters(first_step[t]) = Counters(cold.table[t])

\* a second run has ended, having taken the lists of a seed and of a
\* frontier title from the files of the first run, with edges of both levels
C24_Witness ==
    /\ run = 2
    /\ pc = "Finalize"
    /\ queries = <<>>
    /\ \E s \in seeds_list : Len(loaded[s]) = 2
    /\ \E c \in frontier : loaded[c] # <<>>
    /\ \E i \in 1..Len(net_file) : net_file[i][1] \in frontier
    /\ Len(net_file) >= 4

====
